---- MODULE Spec2Model ----
(***************************************************************************)
(* The optimistic-concurrency write engine of the catalog backend:         *)
(* AutoWriteService (create / update / delete) on top of the Mongoose      *)
(* model of the entity `Auto`, together with the two boundaries that call  *)
(* it (REST controller, GraphQL mutation resolver).  BuchWriteService and  *)
(* the entity `Buch` are the same code with modell/modellnr renamed to     *)
(* titel/isbn, so one model covers both resource families.                 *)
(*                                                                         *)
(* Every `await` on a storage call is a suspension point: one action per   *)
(* storage call, the synchronous code before it belongs to the action      *)
(* that reaches it.                                                        *)
(***************************************************************************)
EXTENDS Integers, Sequences, FiniteSets, TLC

\* ------------------------------------------------------------------ bounds
MaxOid == 2          \* ObjectIDs the store hands out (documents ever created)
MaxVersion == 2      \* successful updates of one document

\* ------------------------------------------------------- program constants
MAX_RATING == 5

\* --------------------------------------------------------- optional values
\* `undefined` is the empty sequence, a present value v is <<v>>.
Undefined == <<>>
Some(v) == <<v>>
IsDefined(o) == o # <<>>
Get(o) == o[1]

\* ----------------------------------------------------------- version token
\* A token is a sequence of characters.
Quote == "\""
Digits == <<"0", "1", "2", "3", "4", "5", "6", "7", "8", "9">>
IsDigit(c) == \E i \in 1..10 : Digits[i] = c
DigitVal(c) == (CHOOSE i \in 1..10 : Digits[i] = c) - 1

\* RE2 '^"\d*"' .test(s): an opening quote, any number of digits, a quote;
\* the pattern is not anchored at the end.
VERSION_PATTERN(s) ==
    /\ Len(s) >= 2
    /\ s[1] = Quote
    /\ \E k \in 2..Len(s) :
          /\ s[k] = Quote
          /\ \A j \in 2..(k - 1) : IsDigit(s[j])

\* String.prototype.slice(1, -1)
Slice1(s) == IF Len(s) <= 2 THEN <<>> ELSE SubSeq(s, 2, Len(s) - 1)

\* length of the longest prefix of digits
RECURSIVE DigitPrefix(_)
DigitPrefix(s) ==
    IF s = <<>> \/ ~IsDigit(Head(s)) THEN 0 ELSE 1 + DigitPrefix(Tail(s))

RECURSIVE DecimalValue(_, _)
DecimalValue(s, n) ==
    IF n = 0 THEN 0 ELSE 10 * DecimalValue(s, n - 1) + DigitVal(s[n])

\* Number.parseInt(s, 10): optional sign, then the longest digit prefix;
\* NaN (here Undefined) when there is no digit.
parseInt(s) ==
    LET neg == s # <<>> /\ Head(s) = "-"
        body == IF neg THEN Tail(s) ELSE s
        n == DigitPrefix(body)
    IN  IF n = 0 THEN Undefined
        ELSE Some((IF neg THEN -1 ELSE 1) * DecimalValue(body, n))

\* Number.prototype.toString() of an integer
RECURSIVE NatToString(_)
NatToString(n) ==
    IF n < 10 THEN <<Digits[n + 1]>>
    ELSE NatToString(n \div 10) \o <<Digits[(n % 10) + 1]>>

toString(n) == IF n < 0 THEN <<"-">> \o NatToString(-n) ELSE NatToString(n)

\* the template `"${n}"`
Quoted(n) == <<Quote>> \o toString(n) \o <<Quote>>

\* ------------------------------------------------------------- identifiers
\* An id string names an ObjectID (oid) in one of the spellings
\* ObjectID.isValid accepts, or is malformed.  toString() of an ObjectID
\* gives the lower-case spelling.
BadId == [oid |-> 0, form |-> "bad"]
Canonical(oid) == [oid |-> oid, form |-> "lower"]
isValidAlways(id) == TRUE

isValid(id) == id.form # "bad"

\* new ObjectID(id): the ObjectID that the string denotes
ObjectIDOther(id) == IF id.oid = 1 THEN 2 ELSE 1

ObjectID(id) == id.oid

\* ---------------------------------------------------------------- entities
\* The attributes of Auto that the write engine treats differently:
\* modell (natural key, unique), modellnr (external identifier, unique,
\* immutable), verbrauch and rabatt (ordinary optional attributes with a
\* range; the other attributes behave like them), __v (version key).
\* A rabatt is counted in hundredths.
Modelle == {"A", "B"}
ModellNrn == {"n1", "n2"}
Verbraeuche == {1, 9}
Rabatte == {50, 150}
PayloadVersions == {7}

Autos ==
    [modell : Modelle,
     modellnr : {Undefined} \cup {Some(n) : n \in ModellNrn},
     verbrauch : {Undefined} \cup {Some(x) : x \in Verbraeuche},
     rabatt : {Undefined} \cup {Some(x) : x \in Rabatte},
     __v : {Undefined} \cup {Some(x) : x \in PayloadVersions}]

\* jsonSchema.properties.verbrauch: minimum 0, maximum MAX_RATING
verbrauchNeverViolated(auto) == FALSE

verbrauchViolated(auto) ==
    /\ IsDefined(auto.verbrauch)
    /\ (Get(auto.verbrauch) < 0 \/ Get(auto.verbrauch) > MAX_RATING)

\* jsonSchema.properties.rabatt: exclusiveMinimum 0, exclusiveMaximum 1
rabattViolated(auto) ==
    /\ IsDefined(auto.rabatt)
    /\ (Get(auto.rabatt) <= 0 \/ Get(auto.rabatt) >= 100)

\* jsonSchema.errorMessage.properties
verbrauchMessage == "Eine Bewertung muss zwischen 0 und 5 liegen."
rabattMessage == "Der Rabatt muss ein Wert zwischen 0 und 1 sein."

\* AutoValidationService.validate: every rule of jsonSchema is evaluated;
\* the messages of the violated ones, in the order of the schema
validate(auto) ==
    (IF verbrauchViolated(auto) THEN <<verbrauchMessage>> ELSE <<>>)
    \o (IF rabattViolated(auto) THEN <<rabattMessage>> ELSE <<>>)

\* ------------------------------------------------------------ the database
\* A collection is a function from the ObjectIDs of its documents to the
\* documents.
autoIndex == TRUE

WithoutNone(coll, oid) == coll

Without(coll, oid) == [o \in DOMAIN coll \ {oid} |-> coll[o]]

Min(S) == CHOOSE x \in S : \A y \in S : x <= y

\* Model.exists({modell}) / Model.findOne({modell})
WithModellNone(coll, modell) == {}

WithModell(coll, modell) == {o \in DOMAIN coll : coll[o].modell = modell}
\* Model.exists({modellnr}); an undefined value matches no stored document,
\* every stored document has a modellnr
WithModellNrNone(coll, modellnr) == {}

WithModellNr(coll, modellnr) ==
    {o \in DOMAIN coll : coll[o].modellnr = modellnr}

\* the unique indexes on modell and modellnr
UniqueIndexesNone(coll, oid, doc) == TRUE

UniqueIndexes(coll, oid, doc) ==
    autoIndex =>
        \A o \in DOMAIN coll \ {oid} :
            /\ coll[o].modell # doc.modell
            /\ coll[o].modellnr # doc.modellnr

\* Document.save() of a new document: the version key of an insert is 0
InsertedKeepVersion(auto) ==
    [modell |-> auto.modell, modellnr |-> auto.modellnr,
     verbrauch |-> auto.verbrauch, rabatt |-> auto.rabatt,
     __v |-> IF IsDefined(auto.__v) THEN Get(auto.__v) ELSE 0]

Inserted(auto) ==
    [modell |-> auto.modell, modellnr |-> auto.modellnr,
     verbrauch |-> auto.verbrauch, rabatt |-> auto.rabatt, __v |-> 0]

\* UPDATE_OPTIONS of findByIdAndUpdate: the updated document is returned;
\* no upsert is asked for, so a missing document is not inserted
UPDATE_OPTIONS_Upsert == [new |-> TRUE, upsert |-> TRUE]
UPDATE_OPTIONS_Old == [new |-> FALSE, upsert |-> FALSE]

UPDATE_OPTIONS == [new |-> TRUE, upsert |-> FALSE]

\* the plugin `optimistic`: the pre-hook of findOneAndUpdate drops __v from
\* the update and adds $inc: {__v: 1}
optimisticKeepVersion(update) ==
    [set |-> update, inc |-> 1]

optimistic(update) ==
    [set |-> [update EXCEPT !.__v = Undefined], inc |-> 1]

\* Mongoose casts an update without operators to $set of the paths it
\* carries, and drops the immutable path modellnr
castUpdateMutable(doc, upd) ==
    [modell |-> upd.set.modell,
     modellnr |-> IF IsDefined(upd.set.modellnr) THEN upd.set.modellnr
                  ELSE doc.modellnr,
     verbrauch |-> IF IsDefined(upd.set.verbrauch) THEN upd.set.verbrauch
                   ELSE doc.verbrauch,
     rabatt |-> IF IsDefined(upd.set.rabatt) THEN upd.set.rabatt
                ELSE doc.rabatt,
     __v |-> (IF IsDefined(upd.set.__v) THEN Get(upd.set.__v) ELSE doc.__v)
             + upd.inc]

castUpdate(doc, upd) ==
    [modell |-> upd.set.modell,
     modellnr |-> doc.modellnr,
     verbrauch |-> IF IsDefined(upd.set.verbrauch) THEN upd.set.verbrauch
                   ELSE doc.verbrauch,
     rabatt |-> IF IsDefined(upd.set.rabatt) THEN upd.set.rabatt
                ELSE doc.rabatt,
     __v |-> (IF IsDefined(upd.set.__v) THEN Get(upd.set.__v) ELSE doc.__v)
             + upd.inc]

\* ------------------------------------------------------------------- state
Procs == {"p1", "p2"}

VARIABLES
    store,      \* the collection Auto
    nextOid,    \* the next ObjectID the driver generates
    hist,       \* per live document: modellnr at creation, successful updates
    mailed,     \* per create: the notifications handed to the mail service
    pc,         \* per request: the storage call it waits for
    req,        \* per request: operation, boundary and arguments
    version,    \* per update: the parsed version (#validateVersion)
    versionDb,  \* per update: the version read by #checkIdAndVersion
    saved,      \* per create: the ObjectID of the saved document
    deleted,    \* per delete: the document findByIdAndDelete returned
    result,     \* per request: what the call returned
    wrote,      \* per request: whether it has changed the collection
    before,     \* per request: the collection when it came in, kept while
                \* no other request has come in since; taken only when no
                \* other request was being served
    user        \* per request: request.user, the payload of its JWT

vars == <<store, nextOid, hist, mailed, pc, req, version, versionDb, saved,
          deleted, result, wrote, before, user>>

NoReq == [op |-> "none"]
NoResult == [tag |-> "none"]

\* the typed results (errors.ts) and the values returned on success
AutoInvalid(messages) == [tag |-> "AutoInvalid", messages |-> messages]
ModellExists(modell, id) ==
    [tag |-> "ModellExists", modell |-> modell, id |-> id]
ModellNrExists(modellnr) == [tag |-> "ModellNrExists", modellnr |-> modellnr]
VersionInvalid(token) == [tag |-> "VersionInvalid", version |-> token]
VersionOutdated(id, v) == [tag |-> "VersionOutdated", id |-> id, version |-> v]
AutoNotExists(id) == [tag |-> "AutoNotExists", id |-> id]
UpdatedNotExists(v) == [tag |-> "AutoNotExists", id |-> v]

Updated(v) == [tag |-> "Updated", version |-> v]

Created(oid) == [tag |-> "Created", id |-> oid]
Deleted(b) == [tag |-> "Deleted", deleted |-> b]
\* the controller's answer 428 when the header If-Match is missing
PreconditionRequired == [tag |-> "PreconditionRequired"]
\* AutoReadService.findById: the document found, or undefined
Found(oid, doc) == [tag |-> "Found", id |-> oid, auto |-> doc]
NotFound == [tag |-> "undefined"]
\* a rejected promise of the storage layer (duplicate key, validation)
StorageError(kind) == [tag |-> "StorageError", kind |-> kind]

Init ==
    /\ store = <<>>
    /\ nextOid = 1
    /\ hist = <<>>
    /\ mailed = [p \in Procs |-> Undefined]
    /\ pc = [p \in Procs |-> "idle"]
    /\ req = [p \in Procs |-> NoReq]
    /\ version = [p \in Procs |-> Undefined]
    /\ versionDb = [p \in Procs |-> Undefined]
    /\ saved = [p \in Procs |-> Undefined]
    /\ deleted = [p \in Procs |-> Undefined]
    /\ result = [p \in Procs |-> NoResult]
    /\ wrote = [p \in Procs |-> FALSE]
    /\ before = [p \in Procs |-> Undefined]
    /\ user = [p \in Procs |-> Undefined]

\* a request ends: its result is set and it waits to be collected
Finish(p, r) ==
    /\ pc' = [pc EXCEPT ![p] = "done"]
    /\ result' = [result EXCEPT ![p] = r]
    /\ UNCHANGED user

\* a request that is not being served: none, or one that has its result
Served == {"idle", "done"}

\* a request comes in
Receive(p, r) ==
    /\ req' = [req EXCEPT ![p] = r]
    /\ before' = [q \in Procs |->
                     IF q = p /\ \A o \in Procs \ {p} : pc[o] \in Served
                     THEN Some(store) ELSE Undefined]

Goto(p, label) ==
    /\ pc' = [pc EXCEPT ![p] = label]
    /\ UNCHANGED <<result, user>>

InFlight(labels) == Cardinality({q \in Procs : pc[q] \in labels})

\* --------------------------------------------------------------- version
\* #validateVersion: the parsed number (Undefined for NaN) or VersionInvalid
validateVersion(versionStr) ==
    IF ~IsDefined(versionStr) \/ ~VERSION_PATTERN(Get(versionStr))
    THEN [ok |-> FALSE, error |-> VersionInvalid(versionStr)]
    ELSE [ok |-> TRUE, number |-> parseInt(Slice1(Get(versionStr)))]

\* `version < versionDb` on numbers; every comparison with NaN is false
LessThan(v, vDb) == IsDefined(v) /\ Get(v) < vDb

\* ObjectIDs are generated by the driver: a caller can name the id of a
\* document that was created (and maybe deleted since), an id that names no
\* document at all, or a malformed id
ForeignOid == MaxOid + 1
Nameable(id) == ~isValid(id) \/ id.oid < nextOid \/ id.oid = ForeignOid

\* ------------------------------------------------------------------ update
UpdateLabels == {"checkModellExists", "checkIdAndVersion", "findByIdAndUpdate"}
CreateLabels == {"existsModell", "existsModellNr", "save"}

\* AutoWriteService.update up to its first storage call: the id, the
\* version string and the candidate are checked synchronously
updateService(p, id, auto, versionStr) ==
    IF ~isValid(id)
    THEN Finish(p, AutoNotExists(id)) /\ UNCHANGED version
    ELSE LET parsed == validateVersion(versionStr)
         IN  IF ~parsed.ok
             THEN Finish(p, parsed.error) /\ UNCHANGED version
             ELSE IF validate(auto) # <<>>
             THEN Finish(p, AutoInvalid(validate(auto))) /\ UNCHANGED version
             ELSE /\ Goto(p, "checkModellExists")
                  /\ version' = [version EXCEPT ![p] = parsed.number]

\* the version of a live document stays within MaxVersion
UpdateBudget(id) ==
    ObjectID(id) \in DOMAIN store =>
        store[ObjectID(id)].__v + InFlight(UpdateLabels) < MaxVersion

\* ------------------------------------------------------ the REST responses
\* res.status(..).set('ETag', ..): status code and, if set, the header ETag
Response(status, etag) == [status |-> status, etag |-> etag]

\* AutoWriteController.#handleUpdateError
handleUpdateErrorNoContent(err) == Response(204, Undefined)

handleUpdateError(err) ==
    IF err.tag = "AutoInvalid" THEN Response(400, Undefined)
    ELSE IF err.tag = "AutoNotExists" THEN Response(412, Undefined)
    ELSE IF err.tag = "ModellExists" THEN Response(400, Undefined)
    ELSE IF err.tag = "VersionInvalid" THEN Response(412, Undefined)
    ELSE IF err.tag = "VersionOutdated" THEN Response(412, Undefined)
    ELSE Response(500, Undefined)

\* AutoWriteController.update: what it answers to the outcome r; a
\* rejected promise of the service is answered with 500
updateResponseBare(r) ==
    IF r.tag = "Updated"
    THEN Response(204, Some(NatToString(r.version)))
    ELSE Response(500, Undefined)

updateResponse(r) ==
    IF r.tag = "PreconditionRequired" THEN Response(428, Undefined)
    ELSE IF r.tag = "StorageError" THEN Response(500, Undefined)
    ELSE IF r.tag = "Updated"
    THEN Response(204, Some(Quoted(r.version)))
    ELSE handleUpdateError(r)

\* AutoWriteController.update: PUT /:id with the header If-Match
RestUpdate(p, id, auto, header) ==
    /\ pc[p] = "idle"
    /\ Nameable(id)
    /\ UpdateBudget(id)
    /\ Receive(p, [op |-> "update", via |-> "rest", id |-> id,
                   auto |-> auto, given |-> header])
    /\ IF header = Undefined
       THEN Finish(p, PreconditionRequired) /\ UNCHANGED version
       ELSE updateService(p, id, auto, header)
    /\ UNCHANGED <<store, nextOid, hist, mailed, versionDb, saved, deleted,
                   wrote>>

\* AutoMutationResolver.update: the mutation's optional argument version
GraphQlUpdate(p, id, auto, gversion) ==
    /\ pc[p] = "idle"
    /\ Nameable(id)
    /\ UpdateBudget(id)
    /\ Receive(p, [op |-> "update", via |-> "graphql", id |-> id,
                   auto |-> auto, given |-> gversion])
    /\ updateService(p, id, auto,
          Some(Quoted(IF gversion = Undefined THEN 0 ELSE Get(gversion))))
    /\ UNCHANGED <<store, nextOid, hist, mailed, versionDb, saved, deleted,
                   wrote>>

\* #checkModellExists and the comparison of its id in #validateUpdate
checkModellExists(p) ==
    /\ pc[p] = "checkModellExists"
    /\ LET found == WithModell(store, req[p].auto.modell)
       IN  IF found # {} /\ Canonical(Min(found)) # req[p].id
           THEN Finish(p, ModellExists(req[p].auto.modell,
                                       Some(Canonical(Min(found)))))
           ELSE Goto(p, "checkIdAndVersion")
    /\ UNCHANGED <<store, nextOid, hist, mailed, req, version, versionDb,
                   saved, deleted, wrote, before>>

\* #checkIdAndVersion
checkIdAndVersion(p) ==
    /\ pc[p] = "checkIdAndVersion"
    /\ LET oid == ObjectID(req[p].id)
       IN  IF oid \notin DOMAIN store
           THEN Finish(p, AutoNotExists(req[p].id)) /\ UNCHANGED versionDb
           ELSE /\ versionDb' = [versionDb EXCEPT ![p] = Some(store[oid].__v)]
                /\ IF LessThan(version[p], store[oid].__v)
                   THEN Finish(p, VersionOutdated(req[p].id, Get(version[p])))
                   ELSE Goto(p, "findByIdAndUpdate")
    /\ UNCHANGED <<store, nextOid, hist, mailed, req, version, saved, deleted,
                   wrote, before>>

\* Model.findByIdAndUpdate(new ObjectID(id), auto, {new: true}) and the
\* rest of update
findByIdAndUpdate(p) ==
    /\ pc[p] = "findByIdAndUpdate"
    /\ LET oid == ObjectID(req[p].id)
       IN  IF oid \notin DOMAIN store /\ UPDATE_OPTIONS.upsert
           THEN /\ store' = (oid :> [Inserted(req[p].auto) EXCEPT !.__v = 1])
                             @@ store
                /\ hist' = (oid :> [modellnr |-> req[p].auto.modellnr,
                                    updates |-> 1]) @@ hist
                /\ wrote' = [wrote EXCEPT ![p] = TRUE]
                /\ Finish(p, Updated(1))
           ELSE IF oid \notin DOMAIN store
           THEN /\ Finish(p, AutoNotExists(req[p].id))
                /\ UNCHANGED <<store, hist, wrote>>
           ELSE LET updated == castUpdate(store[oid], optimistic(req[p].auto))
                IN  IF ~UniqueIndexes(store, oid, updated)
                    THEN /\ Finish(p, StorageError("E11000"))
                         /\ UNCHANGED <<store, hist, wrote>>
                    ELSE /\ store' = [store EXCEPT ![oid] = updated]
                         /\ wrote' = [wrote EXCEPT ![p] = TRUE]
                         /\ hist' = [hist EXCEPT ![oid].updates = @ + 1]
                         /\ Finish(p, Updated(IF UPDATE_OPTIONS.new
                                               THEN updated.__v
                                               ELSE store[oid].__v))
    /\ UNCHANGED <<nextOid, mailed, req, version, versionDb, saved, deleted,
                   before>>

\* ------------------------------------------------------------------ create
\* AutoWriteService.create up to its first storage call (#validateCreate)
create(p, auto) ==
    /\ pc[p] = "idle"
    /\ nextOid + InFlight(CreateLabels) <= MaxOid
    /\ Receive(p, [op |-> "create", auto |-> auto])
    /\ IF validate(auto) # <<>>
       THEN Finish(p, AutoInvalid(validate(auto)))
       ELSE Goto(p, "existsModell")
    /\ UNCHANGED <<store, nextOid, hist, mailed, version, versionDb, saved,
                   deleted, wrote>>

\* #validateCreate: exists({modell})
existsModell(p) ==
    /\ pc[p] = "existsModell"
    /\ IF WithModell(store, req[p].auto.modell) # {}
       THEN Finish(p, ModellExists(req[p].auto.modell, Undefined))
       ELSE Goto(p, "existsModellNr")
    /\ UNCHANGED <<store, nextOid, hist, mailed, req, version, versionDb,
                   saved, deleted, wrote, before>>

\* #validateCreate: exists({modellnr})
existsModellNr(p) ==
    /\ pc[p] = "existsModellNr"
    /\ IF WithModellNr(store, req[p].auto.modellnr) # {}
       THEN Finish(p, ModellNrExists(req[p].auto.modellnr))
       ELSE Goto(p, "save")
    /\ UNCHANGED <<store, nextOid, hist, mailed, req, version, versionDb,
                   saved, deleted, wrote, before>>

\* new Model(auto).save(): modellnr is required by the schema
save(p) ==
    /\ pc[p] = "save"
    /\ LET auto == req[p].auto
       IN  IF ~IsDefined(auto.modellnr)
           THEN /\ Finish(p, StorageError("ValidationError"))
                /\ UNCHANGED <<store, nextOid, hist, saved, deleted, wrote>>
           ELSE IF ~UniqueIndexes(store, nextOid, Inserted(auto))
           THEN /\ Finish(p, StorageError("E11000"))
                /\ UNCHANGED <<store, nextOid, hist, saved, deleted, wrote>>
           ELSE /\ store' = (nextOid :> Inserted(auto)) @@ store
                /\ hist' = (nextOid :> [modellnr |-> auto.modellnr,
                                        updates |-> 0]) @@ hist
                /\ nextOid' = nextOid + 1
                /\ saved' = [saved EXCEPT ![p] = Some(nextOid)]
                /\ UNCHANGED deleted
                /\ wrote' = [wrote EXCEPT ![p] = TRUE]
                /\ Goto(p, "sendmail")
    /\ UNCHANGED <<mailed, req, version, versionDb, before>>

\* MailService.sendmail(subject, body): whether the returned promise is
\* rejected when the mail could not be sent; the failure is not passed on
sendmailRejects(sent) == FALSE

\* #sendmail left out
sendmailNone(p, sent) ==
    /\ pc[p] = "sendmail"
    /\ Finish(p, Created(Get(saved[p])))
    /\ UNCHANGED <<store, nextOid, hist, mailed, req, version, versionDb,
                   saved, deleted, wrote, before>>

\* #sendmail and the rest of create
sendmail(p, sent) ==
    /\ pc[p] = "sendmail"
    /\ mailed' = [mailed EXCEPT ![p] =
                      Append(@, [subject |-> Get(saved[p]),
                                 body |-> req[p].auto.modell,
                                 sent |-> sent])]
    /\ IF sendmailRejects(sent)
       THEN Finish(p, StorageError("sendmail"))
       ELSE Finish(p, Created(Get(saved[p])))
    /\ UNCHANGED <<store, nextOid, hist, req, version, versionDb, saved,
                   deleted, wrote, before>>

\* ------------------------------------------------------------------ delete
\* AutoWriteService.delete up to its storage call
delete(p, id) ==
    /\ pc[p] = "idle"
    /\ Nameable(id)
    /\ Receive(p, [op |-> "delete", id |-> id])
    /\ IF ~isValid(id)
       THEN Finish(p, Deleted(FALSE))
       ELSE Goto(p, "findByIdAndDelete")
    /\ UNCHANGED <<store, nextOid, hist, mailed, version, versionDb, saved,
                   deleted, wrote>>

\* Model.findByIdAndDelete(new ObjectID(idStr))
findByIdAndDelete(p) ==
    /\ pc[p] = "findByIdAndDelete"
    /\ LET oid == ObjectID(req[p].id)
       IN  /\ store' = Without(store, oid)
           /\ hist' = Without(hist, oid)
           /\ deleted' = [deleted EXCEPT ![p] =
                             IF oid \in DOMAIN store THEN Some(store[oid])
                             ELSE Undefined]
           /\ wrote' = [wrote EXCEPT ![p] = @ \/ oid \in DOMAIN store]
           /\ Finish(p, Deleted(oid \in DOMAIN store))
    /\ UNCHANGED <<nextOid, mailed, req, version, versionDb, saved, before>>

\* ---------------------------------------------------------------- security
\* the users of the configuration: one per combination of roles
users ==
    {[userId |-> 1, roles |-> {"ADMIN", "MITARBEITER"}],
     [userId |-> 3, roles |-> {"MITARBEITER"}],
     [userId |-> 5, roles |-> {"KUNDE"}]}

\* UserService.findById: the user with the id, or undefined
userServiceFindById(userId) ==
    IF \E u \in users : u.userId = userId
    THEN Some(CHOOSE u \in users : u.userId = userId)
    ELSE Undefined

\* @Roles(..) at the handlers of the write controller and of the mutation
\* resolver
requiredRoles ==
    [create |-> {"ADMIN", "MITARBEITER"},
     update |-> {"ADMIN", "MITARBEITER"},
     delete |-> {"ADMIN"}]

\* RolesGuard.canActivate
canActivateAlways(roles, userPayload) == TRUE

canActivate(roles, userPayload) ==
    IF roles = {} THEN TRUE
    ELSE IF userPayload = Undefined THEN FALSE
    ELSE LET found == userServiceFindById(Get(userPayload).userId)
         IN  IF found = Undefined THEN FALSE
             ELSE \E role \in roles : role \in Get(found).roles

\* JwtAuthGuard.handleRequest: request.user = user
handleRequest(p, userPayload) ==
    /\ pc[p] = "idle"
    /\ user[p] # userPayload
    /\ user' = [user EXCEPT ![p] = userPayload]
    /\ UNCHANGED <<store, nextOid, hist, mailed, pc, req, version, versionDb,
                   saved, deleted, result, wrote, before>>

\* the guard lets the request reach the handler
Activated(p, handler) == canActivate(requiredRoles[handler], user[p])

\* the guard refuses the request: the handler is not called
Forbidden == [tag |-> "Forbidden"]
Refused(p, handler) ==
    /\ pc[p] = "idle"
    /\ ~Activated(p, handler)
    /\ Receive(p, [op |-> "refused", handler |-> handler])
    /\ Finish(p, Forbidden)
    /\ UNCHANGED <<store, nextOid, hist, mailed, version, versionDb, saved,
                   deleted, wrote>>

\* -------------------------------------------------------------------- read
\* AutoReadService.findById up to its storage call
findById(p, idStr) ==
    /\ pc[p] = "idle"
    /\ Nameable(idStr)
    /\ Receive(p, [op |-> "findById", id |-> idStr])
    /\ IF ~isValid(idStr)
       THEN Finish(p, NotFound)
       ELSE Goto(p, "findById")
    /\ UNCHANGED <<store, nextOid, hist, mailed, version, versionDb, saved,
                   deleted, wrote>>

\* Model.findById(new ObjectID(idStr))
modelFindById(p) ==
    /\ pc[p] = "findById"
    /\ LET id == ObjectID(req[p].id)
       IN  Finish(p, IF id \in DOMAIN store THEN Found(id, store[id])
                     ELSE NotFound)
    /\ UNCHANGED <<store, nextOid, hist, mailed, req, version, versionDb,
                   saved, deleted, wrote, before>>

\* req.accepts(['json', 'html']) === false: the controller's answer 406
NotAcceptable == [tag |-> "NotAcceptable"]

\* res.sendStatus / res.header('ETag', ..) / res.json of the GET by id
GetResponse(status, etag, body) ==
    [status |-> status, etag |-> etag, body |-> body]

\* AutoGetController.findById: what it answers to the outcome r of the
\* read when the header If-None-Match is ifNoneMatch
findByIdResponseOk(r, ifNoneMatch) ==
    IF r.tag = "Found"
    THEN GetResponse(200, Some(Quoted(r.auto.__v)), Some(r.auto))
    ELSE GetResponse(404, Undefined, Undefined)

findByIdResponse(r, ifNoneMatch) ==
    IF r.tag = "NotAcceptable" THEN GetResponse(406, Undefined, Undefined)
    ELSE IF r.tag = "undefined" THEN GetResponse(404, Undefined, Undefined)
    ELSE LET stored == r.auto.__v
         IN  IF ifNoneMatch = Some(Quoted(stored))
             THEN GetResponse(304, Undefined, Undefined)
             ELSE GetResponse(200, Some(Quoted(stored)), Some(r.auto))

\* AutoGetController.findById: GET /:id with the headers Accept and
\* If-None-Match, up to the storage call of AutoReadService.findById
RestFindById(p, idStr, header, accepts) ==
    /\ pc[p] = "idle"
    /\ Nameable(idStr)
    /\ Receive(p, [op |-> "GET", id |-> idStr, given |-> header,
                   accepts |-> accepts])
    /\ IF ~accepts
       THEN Finish(p, NotAcceptable)
       ELSE IF ~isValid(idStr)
       THEN Finish(p, NotFound)
       ELSE Goto(p, "findById")
    /\ UNCHANGED <<store, nextOid, hist, mailed, version, versionDb, saved,
                   deleted, wrote>>

\* -------------------------------------------------------------------- find
\* A filter is a function from the names of its criteria to their values.
\* exactFilterProperties (entity): the criteria handed to the database
exactFilterProperties ==
    {"verbrauch", "typ", "marke", "preis", "rabatt", "lieferbar", "datum",
     "modellnr", "homepage"}

\* const { modell, javascript, typescript, ...dbFilter } = filter
RestProperties(filter) ==
    [k \in DOMAIN filter \ {"modell", "javascript", "typescript"} |->
        filter[k]]

\* #checkInvalidProperty
checkInvalidPropertyNever(dbFilter) == FALSE

checkInvalidProperty(dbFilter) ==
    \E key \in DOMAIN dbFilter : key \notin exactFilterProperties

\* the modelle and the modell criteria are single letters: a criterion is
\* shorter than 10 characters and becomes RegExp(modell, 'iu'), which
\* matches a modell that contains it, whatever the case
ToLowerCase == [A |-> "a", B |-> "b", a |-> "a", b |-> "b"]
RegExpTest(pattern, modell) == ToLowerCase[pattern] = ToLowerCase[modell]

\* the order of sort('modell')
ModellRank == [A |-> 1, B |-> 2]

\* the documents of the collection with the ObjectIDs oids, by ObjectID
RECURSIVE NaturalOrder(_, _)
NaturalOrder(coll, oids) ==
    IF oids = {} THEN <<>>
    ELSE <<Found(Min(oids), coll[Min(oids)])>>
         \o NaturalOrder(coll, oids \ {Min(oids)})

\* ... and by modell
RECURSIVE SortModell(_, _)
SortModell(coll, oids) ==
    IF oids = {} THEN <<>>
    ELSE LET first == CHOOSE o \in oids : \A x \in oids :
                          \/ ModellRank[coll[o].modell]
                                < ModellRank[coll[x].modell]
                          \/ /\ coll[o].modell = coll[x].modell
                             /\ o <= x
         IN  <<Found(first, coll[first])>>
             \o SortModell(coll, oids \ {first})

\* Model.find(dbFilter): the documents that meet every criterion.  The
\* modelled documents carry no herstellorte, so none meets a criterion on
\* it; a criterion on verbrauch or modellnr is met by an equal value.
Matches(doc, filter) ==
    /\ "modell" \in DOMAIN filter => RegExpTest(filter.modell, doc.modell)
    /\ "verbrauch" \in DOMAIN filter => doc.verbrauch = Some(filter.verbrauch)
    /\ "modellnr" \in DOMAIN filter => doc.modellnr = Some(filter.modellnr)
    /\ ~(\/ ("javascript" \in DOMAIN filter /\ filter.javascript = "true")
         \/ ("typescript" \in DOMAIN filter /\ filter.typescript = "true"))

\* the sequence of documents find returns
FoundAll(autos) == [tag |-> "FoundAll", autos |-> autos]

\* AutoReadService.find up to its storage call
find(p, filter) ==
    /\ pc[p] = "idle"
    /\ Receive(p, [op |-> "find", filter |-> filter])
    /\ IF filter = Undefined \/ DOMAIN Get(filter) = {}
       THEN Goto(p, "findAll")
       ELSE IF checkInvalidProperty(RestProperties(Get(filter)))
       THEN Finish(p, FoundAll(<<>>))
       ELSE Goto(p, "find")
    /\ UNCHANGED <<store, nextOid, hist, mailed, version, versionDb, saved,
                   deleted, wrote>>

\* #findAll: Model.find().sort('modell')
findAll(p) ==
    /\ pc[p] = "findAll"
    /\ Finish(p, FoundAll(SortModell(store, DOMAIN store)))
    /\ UNCHANGED <<store, nextOid, hist, mailed, req, version, versionDb,
                   saved, deleted, wrote, before>>

\* Model.find(dbFilter)
modelFind(p) ==
    /\ pc[p] = "find"
    /\ LET filter == Get(req[p].filter)
       IN  Finish(p, FoundAll(NaturalOrder(store,
                      {o \in DOMAIN store : Matches(store[o], filter)})))
    /\ UNCHANGED <<store, nextOid, hist, mailed, req, version, versionDb,
                   saved, deleted, wrote, before>>

\* the caller takes the result; the request's locals are gone
Return(p) ==
    /\ pc[p] = "done"
    /\ pc' = [pc EXCEPT ![p] = "idle"]
    /\ req' = [req EXCEPT ![p] = NoReq]
    /\ version' = [version EXCEPT ![p] = Undefined]
    /\ versionDb' = [versionDb EXCEPT ![p] = Undefined]
    /\ saved' = [saved EXCEPT ![p] = Undefined]
    /\ deleted' = [deleted EXCEPT ![p] = Undefined]
    /\ result' = [result EXCEPT ![p] = NoResult]
    /\ mailed' = [mailed EXCEPT ![p] = Undefined]
    /\ wrote' = [wrote EXCEPT ![p] = FALSE]
    /\ before' = [before EXCEPT ![p] = Undefined]
    /\ user' = [user EXCEPT ![p] = Undefined]
    /\ UNCHANGED <<store, nextOid, hist>>

\* ------------------------------------------------------------------ inputs
\* the ObjectIDs of the documents and one that is never handed out
Oids == 1..ForeignOid
LowerIds == {Canonical(o) : o \in Oids}
Ids == LowerIds \cup {[oid |-> 1, form |-> "upper"], BadId}

\* header values If-Match: well-formed tokens and malformed ones
HeaderTokens ==
    {Quoted(0), Quoted(1), <<Quote, Quote>>, <<Quote, "-", "1", Quote>>,
     <<"0">>, <<Quote, "0", Quote, "x">>}
Headers == {Undefined} \cup {Some(t) : t \in HeaderTokens}
GraphQlVersions == {Undefined, Some(-1), Some(1)}

\* candidates that differ in the two keys only
KeyAutos ==
    {a \in Autos : /\ IsDefined(a.modellnr)
                   /\ a.verbrauch = Undefined
                   /\ a.rabatt = Undefined
                   /\ a.__v = Undefined}
\* ... and in validity
TokenAutos ==
    {a \in Autos : /\ IsDefined(a.modellnr)
                   /\ a.verbrauch \in {Undefined, Some(9)}
                   /\ a.rabatt = Undefined
                   /\ a.__v = Undefined}

\* the steps of the requests in flight
Proceed(p) ==
    \/ checkModellExists(p)
    \/ checkIdAndVersion(p)
    \/ findByIdAndUpdate(p)
    \/ existsModell(p)
    \/ existsModellNr(p)
    \/ save(p)
    \/ \E sent \in BOOLEAN : sendmail(p, sent)
    \/ findByIdAndDelete(p)
    \/ Return(p)

Step(p, in) ==
    \/ \E id \in in.ids, auto \in in.autos, h \in in.headers :
          RestUpdate(p, id, auto, h)
    \/ \E id \in in.ids, auto \in in.gqlAutos, g \in in.gversions :
          GraphQlUpdate(p, id, auto, g)
    \/ \E auto \in in.autos : create(p, auto)
    \/ \E id \in in.ids : delete(p, id)
    \/ Proceed(p)

\* one request at a time, every kind of payload
PayloadAutos == {a \in Autos : a.rabatt = Undefined}
PayloadInputs ==
    [ids |-> LowerIds, autos |-> PayloadAutos, gqlAutos |-> KeyAutos,
     headers |-> {Some(Quoted(1))}, gversions |-> {Undefined}]
Next == Step("p1", PayloadInputs)
Spec == Init /\ [][Next]_vars

\* one request at a time, every kind of version token and identifier
TokenInputs ==
    [ids |-> Ids, autos |-> TokenAutos, gqlAutos |-> KeyAutos,
     headers |-> Headers, gversions |-> GraphQlVersions]
NextToken == Step("p1", TokenInputs)
SpecToken == Init /\ [][NextToken]_vars

\* two requests in flight, all with the version token "0"
NextConc ==
    \E p \in Procs :
        \/ \E id \in LowerIds, auto \in KeyAutos :
              RestUpdate(p, id, auto, Some(Quoted(0)))
        \/ \E auto \in KeyAutos : create(p, auto)
        \/ \E id \in LowerIds : delete(p, id)
        \/ Proceed(p)
SpecConc == Init /\ [][NextConc]_vars

\* one request at a time, candidates that violate none, one or two rules
ValidationAutos ==
    {a \in Autos : /\ a.modell = "A" /\ a.modellnr = Some("n1")
                   /\ a.__v = Undefined}
ValidationInputs ==
    [ids |-> LowerIds, autos |-> ValidationAutos,
     gqlAutos |-> ValidationAutos,
     headers |-> {Some(Quoted(0))}, gversions |-> {Undefined}]
NextValidate == Step("p1", ValidationInputs)
SpecValidate == Init /\ [][NextValidate]_vars

\* a writer and a reader
ReadAutos ==
    {a \in Autos : /\ IsDefined(a.modellnr) /\ a.rabatt = Undefined
                   /\ a.verbrauch # Some(9)}
ReadInputs ==
    [ids |-> LowerIds, autos |-> ReadAutos, gqlAutos |-> KeyAutos,
     headers |-> {Some(Quoted(0))}, gversions |-> {Undefined}]
NextRead ==
    \/ Step("p1", ReadInputs)
    \/ \E idStr \in LowerIds : findById("p2", idStr)
    \/ modelFindById("p2")
    \/ Return("p2")
SpecRead == Init /\ [][NextRead]_vars

\* one request at a time, writes and searches
Criteria ==
    [modell : {"a", "B"}, javascript : {"true", "false"},
     verbrauch : {1}, modellnr : {"n1"}, herstellorte : {"ESSLINGEN"},
     foo : {"x"}]
Filters ==
    {Undefined} \cup
    {Some([k \in K |-> c[k]]) :
        c \in Criteria,
        K \in SUBSET {"modell", "javascript", "verbrauch", "modellnr",
                      "herstellorte", "foo"}}
FindAutos ==
    {a \in Autos : /\ IsDefined(a.modellnr) /\ a.verbrauch # Some(9)
                   /\ a.rabatt = Undefined /\ a.__v = Undefined}
FindInputs ==
    [ids |-> LowerIds, autos |-> FindAutos, gqlAutos |-> KeyAutos,
     headers |-> {Some(Quoted(0))}, gversions |-> {Undefined}]
NextFind ==
    \/ Step("p1", FindInputs)
    \/ \E filter \in Filters : find("p1", filter)
    \/ findAll("p1")
    \/ modelFind("p1")
SpecFind == Init /\ [][NextFind]_vars

\* one request at a time, reads and writes, every kind of identifier
IdInputs ==
    [ids |-> Ids, autos |-> KeyAutos, gqlAutos |-> KeyAutos,
     headers |-> {Undefined, Some(Quoted(0))}, gversions |-> {Undefined}]
NextId ==
    \/ Step("p1", IdInputs)
    \/ \E idStr \in Ids : findById("p1", idStr)
    \/ modelFindById("p1")
SpecId == Init /\ [][NextId]_vars

\* a client that reads and updates over REST and keeps the answer, and a
\* second one that writes with the version tokens "0", "1" and 1
TripTokens == {Some(Quoted(0)), Some(Quoted(1)), Some(<<"1">>)}
TripAutos == {a \in KeyAutos : a.modellnr = Some("n1")}
NextTrip ==
    \/ \E auto \in KeyAutos : create("p1", auto)
    \/ \E id \in LowerIds, auto \in TripAutos, header \in TripTokens :
          RestUpdate("p1", id, auto, header)
    \/ existsModell("p1")
    \/ existsModellNr("p1")
    \/ save("p1")
    \/ \E sent \in BOOLEAN : sendmail("p1", sent)
    \/ \E idStr \in LowerIds :
          RestFindById("p2", idStr, Undefined, TRUE)
    \/ modelFindById("p2")
    \/ \E id \in LowerIds, auto \in TripAutos :
          RestUpdate("p2", id, auto, Some(Quoted(0)))
    \/ \E p \in Procs :
          \/ checkModellExists(p)
          \/ checkIdAndVersion(p)
          \/ findByIdAndUpdate(p)
          \/ Return(p)
SpecTrip == Init /\ [][NextTrip]_vars

\* a client that creates and updates and a second one that deletes
NextRecreate ==
    \/ \E auto \in KeyAutos : create("p1", auto)
    \/ \E id \in LowerIds, auto \in KeyAutos :
          RestUpdate("p1", id, auto, Some(Quoted(0)))
    \/ Proceed("p1")
    \/ \E id \in Ids : delete("p2", id)
    \/ findByIdAndDelete("p2")
    \/ Return("p2")
SpecRecreate == Init /\ [][NextRecreate]_vars

\* one request at a time behind the guards
UserPayloads == {Undefined} \cup {Some([userId |-> i]) : i \in {1, 3, 5, 9}}
NextRoles ==
    \/ \E userPayload \in UserPayloads : handleRequest("p1", userPayload)
    \/ /\ Activated("p1", "update")
       /\ \E id \in LowerIds, auto \in KeyAutos :
             RestUpdate("p1", id, auto, Some(Quoted(0)))
    \/ /\ Activated("p1", "update")
       /\ \E id \in LowerIds, auto \in KeyAutos :
             GraphQlUpdate("p1", id, auto, Undefined)
    \/ /\ Activated("p1", "create")
       /\ \E auto \in KeyAutos : create("p1", auto)
    \/ /\ Activated("p1", "delete")
       /\ \E id \in LowerIds : delete("p1", id)
    \/ \E handler \in DOMAIN requiredRoles : Refused("p1", handler)
    \/ Proceed("p1")
SpecRoles == Init /\ [][NextRoles]_vars

\* one request at a time, writes and conditional reads
IfNoneMatch == {Undefined, Some(Quoted(0)), Some(Quoted(1)), Some(<<"0">>)}
NextGet ==
    \/ Step("p1", IdInputs)
    \/ \E idStr \in Ids, header \in IfNoneMatch, accepts \in BOOLEAN :
          RestFindById("p1", idStr, header, accepts)
    \/ modelFindById("p1")
SpecGet == Init /\ [][NextGet]_vars

\* ------------------------------------------------------------- properties
\* the version string the boundary hands to the service
TokenOf(r) ==
    IF r.via = "rest" THEN r.given
    ELSE Some(Quoted(IF r.given = Undefined THEN 0 ELSE Get(r.given)))

\* a quote, one or more decimal digits, a quote
WellFormedToken(t) ==
    /\ Len(t) >= 3
    /\ t[1] = Quote
    /\ t[Len(t)] = Quote
    /\ \A j \in 2..(Len(t) - 1) : IsDigit(t[j])

\* the integer a well-formed token denotes
TokenValue(t) == DecimalValue(SubSeq(t, 2, Len(t) - 1), Len(t) - 2)

IsUpdate(p) == req[p].op = "update"
IsCreate(p) == req[p].op = "create"

\* C1: two updates of one resource that both read the stored version their
\* token names (so they ran concurrently) do not both succeed.
C1_OneConcurrentUpdateWins ==
    \A p, q \in Procs :
        ( /\ p # q
          /\ pc[p] = "done" /\ pc[q] = "done"
          /\ IsUpdate(p) /\ IsUpdate(q)
          /\ req[p].id = req[q].id
          /\ IsDefined(versionDb[p]) /\ versionDb[p] = versionDb[q]
          /\ version[p] = versionDb[p] /\ version[q] = versionDb[q] )
        => ~(result[p].tag = "Updated" /\ result[q].tag = "Updated")

\* C2: the version of a live resource is a natural number, 0 at creation
\* and one more with every successful update of it, whatever version the
\* payloads and the tokens carried.
C2_VersionCountsUpdates ==
    \A o \in DOMAIN store :
        store[o].__v \in Nat /\ store[o].__v = hist[o].updates

C2_Witness ==
    \E p \in Procs :
        /\ pc[p] = "done" /\ IsUpdate(p)
        /\ IsDefined(req[p].auto.__v)
        /\ result[p] = Updated(2)
        /\ store[ObjectID(req[p].id)].__v = 2

\* C8: the modellnr of a live resource is the one it was created with.
C8_ModellNrImmutable ==
    \A o \in DOMAIN store : store[o].modellnr = hist[o].modellnr

C8_Witness ==
    \E p \in Procs :
        /\ pc[p] = "done" /\ IsUpdate(p)
        /\ result[p].tag = "Updated"
        /\ IsDefined(req[p].auto.modellnr)
        /\ req[p].auto.modellnr # store[ObjectID(req[p].id)].modellnr

\* the collection as request p found it
Pre(p) == Get(before[p])

\* request p is an update, served alone, of a resource that exists, with a
\* valid candidate and a well-formed token
IsUpdateOfExisting(p) ==
    /\ IsUpdate(p) /\ IsDefined(before[p])
    /\ isValid(req[p].id)
    /\ ObjectID(req[p].id) \in DOMAIN Pre(p)
    /\ validate(req[p].auto) = <<>>
    /\ IsDefined(TokenOf(req[p]))
    /\ WellFormedToken(Get(TokenOf(req[p])))

\* C3: an update of an existing resource with a valid candidate whose key
\* no other resource holds and a well-formed token below the stored version
\* ends with VersionOutdated(id, token value) and changes nothing.
C3_StaleTokenOutdated ==
    \A p \in Procs :
        ( /\ pc[p] = "done" /\ IsUpdateOfExisting(p)
          /\ TokenValue(Get(TokenOf(req[p]))) <
                Pre(p)[ObjectID(req[p].id)].__v
          /\ \A o \in DOMAIN Pre(p) \ {ObjectID(req[p].id)} :
                Pre(p)[o].modell # req[p].auto.modell )
        => /\ result[p] = VersionOutdated(req[p].id,
                                          TokenValue(Get(TokenOf(req[p]))))
           /\ store = Pre(p)

\* C4: the service takes a supplied version string as a version exactly
\* when it is a quote, one or more digits and a quote, with the value the
\* digits denote; every other string ends the update with VersionInvalid
\* carrying it, and nothing is written.
C4_ExactlyQuotedDigitsParse ==
    \A p \in Procs :
        ( /\ pc[p] # "idle" /\ IsUpdate(p)
          /\ isValid(req[p].id)
          /\ IsDefined(TokenOf(req[p])) )
        => IF WellFormedToken(Get(TokenOf(req[p])))
           THEN /\ result[p].tag # "VersionInvalid"
                /\ pc[p] \in UpdateLabels =>
                      version[p] = Some(TokenValue(Get(TokenOf(req[p]))))
           ELSE /\ pc[p] = "done"
                /\ result[p] = VersionInvalid(TokenOf(req[p]))
                /\ ~wrote[p]

\* C5: an update without a version token ends at once with the outcome
\* "precondition required" and writes nothing, on either boundary.
C5_MissingTokenRejected ==
    \A p \in Procs :
        (pc[p] # "idle" /\ IsUpdate(p) /\ req[p].given = Undefined)
        => /\ pc[p] = "done"
           /\ result[p] = PreconditionRequired
           /\ ~wrote[p]

\* request p is a create, served alone and finished
CreateDone(p) == pc[p] = "done" /\ IsCreate(p) /\ IsDefined(before[p])

\* a document that request p found holds the candidate's modell / modellnr
KeyCollides(p) ==
    \E o \in DOMAIN Pre(p) : Pre(p)[o].modell = req[p].auto.modell
ModellNrCollides(p) ==
    \E o \in DOMAIN Pre(p) : Pre(p)[o].modellnr = req[p].auto.modellnr

\* C6: whatever the interleaving of creates, updates and deletes, no two
\* live documents have the same modell.
C6_ModellUnique ==
    \A o1, o2 \in DOMAIN store :
        store[o1].modell = store[o2].modell => o1 = o2

\* two creates with the same modell passed the existence check together;
\* the unique index let one of them in
C6_Witness ==
    \E p, q \in Procs :
        /\ p # q
        /\ pc[p] = "done" /\ pc[q] = "done"
        /\ IsCreate(p) /\ IsCreate(q)
        /\ req[p].auto.modell = req[q].auto.modell
        /\ result[p].tag = "Created"
        /\ result[q] = StorageError("E11000")
        /\ Get(saved[p]) \in DOMAIN store

\* C7: a create with a valid candidate whose modell a live document holds
\* ends with ModellExists carrying that modell, stores nothing and hands
\* nothing to the mail service.
C7_DuplicateModellRejected ==
    \A p \in Procs :
        (CreateDone(p) /\ validate(req[p].auto) = <<>> /\ KeyCollides(p))
        => /\ result[p] = ModellExists(req[p].auto.modell, Undefined)
           /\ store = Pre(p)
           /\ mailed[p] = Undefined

C7_Witness ==
    \E p \in Procs :
        /\ CreateDone(p) /\ validate(req[p].auto) = <<>> /\ KeyCollides(p)
        /\ ~ModellNrCollides(p)
        /\ result[p].tag = "ModellExists"

\* C9: after a successful update every attribute of the stored document is
\* the candidate's, an attribute the candidate leaves out is cleared, and
\* only modellnr is retained.
C9_UpdateReplacesRecord ==
    \A p \in Procs :
        ( /\ pc[p] = "done" /\ IsUpdate(p) /\ IsDefined(before[p])
          /\ result[p].tag = "Updated" )
        => LET oid == ObjectID(req[p].id)
           IN  /\ store[oid].modell = req[p].auto.modell
               /\ store[oid].verbrauch = req[p].auto.verbrauch
               /\ store[oid].modellnr = Pre(p)[oid].modellnr

\* C10: create reports the first failing check in the order validation,
\* modell, modellnr: an invalid candidate gives AutoInvalid whatever
\* collides, a valid one whose modell and modellnr both collide gives
\* ModellExists, a valid one whose modellnr alone collides gives
\* ModellNrExists; nothing is stored in any of these cases.
C10_CreateErrorPrecedence ==
    \A p \in Procs :
        CreateDone(p) =>
            /\ validate(req[p].auto) # <<>> =>
                  /\ result[p] = AutoInvalid(validate(req[p].auto))
                  /\ store = Pre(p)
            /\ ( /\ validate(req[p].auto) = <<>>
                 /\ KeyCollides(p) /\ ModellNrCollides(p) ) =>
                  /\ result[p].tag = "ModellExists"
                  /\ store = Pre(p)
            /\ ( /\ validate(req[p].auto) = <<>>
                 /\ ~KeyCollides(p) /\ ModellNrCollides(p) ) =>
                  /\ result[p] = ModellNrExists(req[p].auto.modellnr)
                  /\ store = Pre(p)

C10_Witness ==
    \E p \in Procs :
        /\ CreateDone(p) /\ validate(req[p].auto) = <<>>
        /\ ~KeyCollides(p) /\ ModellNrCollides(p)
        /\ result[p].tag = "ModellNrExists"

\* request p is an update, served alone and finished, with a valid
\* candidate, a well-formed token and an id the service accepts
UpdateDone(p) ==
    /\ pc[p] = "done" /\ IsUpdate(p) /\ IsDefined(before[p])
    /\ isValid(req[p].id)
    /\ validate(req[p].auto) = <<>>
    /\ IsDefined(TokenOf(req[p]))
    /\ WellFormedToken(Get(TokenOf(req[p])))

\* the documents other than the one request p names that held the
\* candidate's modell when p came in
Colliding(p) ==
    {o \in DOMAIN Pre(p) \ {ObjectID(req[p].id)} :
        Pre(p)[o].modell = req[p].auto.modell}

\* the version of the document request p names, when p came in
StoredVersion(p) == Pre(p)[ObjectID(req[p].id)].__v

\* C11: in an update the modell is checked before existence and version:
\* when another live document holds the candidate's modell, an id that
\* names no document gives ModellExists with that document's id, not
\* AutoNotExists, and an existing id with a stale token gives ModellExists,
\* not VersionOutdated.
C11_KeyCheckedFirst ==
    \A p \in Procs :
        ( /\ UpdateDone(p) /\ Colliding(p) # {}
          /\ \/ ObjectID(req[p].id) \notin DOMAIN Pre(p)
             \/ TokenValue(Get(TokenOf(req[p]))) < StoredVersion(p) )
        => /\ result[p].tag = "ModellExists"
           /\ result[p].modell = req[p].auto.modell
           /\ \E o \in Colliding(p) : result[p].id = Some(Canonical(o))

C11_Witness ==
    \E p \in Procs :
        /\ UpdateDone(p) /\ Colliding(p) # {}
        /\ ObjectID(req[p].id) \in DOMAIN Pre(p)
        /\ TokenValue(Get(TokenOf(req[p]))) < StoredVersion(p)
        /\ result[p].tag = "ModellExists"

\* C12: an update of an existing resource that keeps the resource's own
\* modell, with the current version as token and a valid candidate,
\* succeeds, however the id is spelled.
C12_OwnKeyAccepted ==
    \A p \in Procs :
        ( /\ UpdateDone(p)
          /\ ObjectID(req[p].id) \in DOMAIN Pre(p)
          /\ Pre(p)[ObjectID(req[p].id)].modell = req[p].auto.modell
          /\ TokenValue(Get(TokenOf(req[p]))) = StoredVersion(p) )
        => result[p].tag = "Updated"

\* C13: an update whose version token is malformed ends with
\* VersionInvalid whatever the id, the candidate and the stored modelle,
\* and writes nothing.
C13_MalformedTokenInvalid ==
    \A p \in Procs :
        ( /\ pc[p] # "idle" /\ IsUpdate(p)
          /\ IsDefined(req[p].given)
          /\ ~WellFormedToken(Get(TokenOf(req[p]))) )
        => /\ pc[p] = "done"
           /\ result[p].tag = "VersionInvalid"
           /\ ~wrote[p]

\* C14: an update of an existing resource with a valid candidate whose
\* modell no other resource holds and a token equal to or above the stored
\* version succeeds; the returned and the stored version are the stored
\* version plus 1.
C14_TokenAtOrAheadAccepted ==
    \A p \in Procs :
        ( /\ UpdateDone(p)
          /\ ObjectID(req[p].id) \in DOMAIN Pre(p)
          /\ Colliding(p) = {}
          /\ TokenValue(Get(TokenOf(req[p]))) >= StoredVersion(p) )
        => /\ result[p] = Updated(StoredVersion(p) + 1)
           /\ store[ObjectID(req[p].id)].__v = StoredVersion(p) + 1

\* request p is a delete, served alone and finished
DeleteDone(p) ==
    pc[p] = "done" /\ req[p].op = "delete" /\ IsDefined(before[p])

\* C15: delete never fails: it returns true exactly when the id named a
\* live resource, which is then gone and nothing else has changed;
\* otherwise (so for a second delete of the same id) it returns false and
\* changes nothing.
C15_DeleteIdempotent ==
    \A p \in Procs :
        DeleteDone(p) =>
            LET live == /\ isValid(req[p].id)
                        /\ ObjectID(req[p].id) \in DOMAIN Pre(p)
            IN  /\ result[p] = Deleted(live)
                /\ DOMAIN store =
                      DOMAIN Pre(p) \ (IF live THEN {ObjectID(req[p].id)}
                                       ELSE {})
                /\ \A o \in DOMAIN store : store[o] = Pre(p)[o]

\* a delete of an id whose resource was deleted before
C15_Witness ==
    \E p \in Procs :
        /\ DeleteDone(p) /\ isValid(req[p].id)
        /\ req[p].id.oid < nextOid
        /\ ObjectID(req[p].id) \notin DOMAIN Pre(p)
        /\ result[p] = Deleted(FALSE)
        /\ store = Pre(p)

\* request q is a findById, finished, of the id that request p, finished
\* before q came in, wrote to
ReadAfter(q, p, oid) ==
    /\ p # q
    /\ pc[p] = "done" /\ pc[q] = "done"
    /\ req[q].op = "findById"
    /\ isValid(req[q].id) /\ ObjectID(req[q].id) = oid
    /\ IsDefined(before[q]) /\ wrote[p]

C17_UpdateThenFindById ==
    /\ \A p \in Procs :
          (UpdateDone(p) /\ result[p].tag = "Updated")
          => result[p].version = StoredVersion(p) + 1
    /\ \A p, q \in Procs :
          ( /\ IsUpdate(p) /\ result[p].tag = "Updated"
            /\ ReadAfter(q, p, ObjectID(req[p].id)) )
          => /\ result[q].tag = "Found"
             /\ result[q].auto.modell = req[p].auto.modell
             /\ result[q].auto.verbrauch = req[p].auto.verbrauch
             /\ result[q].auto.__v = result[p].version

\* the typed failures of create and update
TypedFailures ==
    {"AutoInvalid", "ModellExists", "ModellNrExists", "AutoNotExists",
     "VersionInvalid", "VersionOutdated", "PreconditionRequired"}

\* C18: a create or update that ends in a typed failure has written
\* nothing: the collection is as it was when the request came in.
C18_FailureWritesNothing ==
    \A p \in Procs :
        ( /\ pc[p] = "done" /\ (IsCreate(p) \/ IsUpdate(p))
          /\ result[p].tag \in TypedFailures )
        => /\ ~wrote[p]
           /\ IsDefined(before[p]) => store = Pre(p)

C18_Witness ==
    \E p \in Procs :
        /\ pc[p] = "done" /\ IsUpdate(p) /\ IsDefined(before[p])
        /\ result[p].tag = "VersionOutdated"
        /\ req[p].auto.modell # Pre(p)[ObjectID(req[p].id)].modell
        /\ store = Pre(p)

BreaksVerbrauch(p) ==
    /\ IsDefined(req[p].auto.verbrauch)
    /\ ~(Get(req[p].auto.verbrauch) \in 0..MAX_RATING)
BreaksRabatt(p) ==
    /\ IsDefined(req[p].auto.rabatt)
    /\ ~(Get(req[p].auto.rabatt) \in 1..99)

C21_MalformedIdShortCircuits ==
    \A p \in Procs :
        ( /\ req[p].op \in {"findById", "delete", "update"}
          /\ req[p].id.form = "bad" )
        => /\ pc[p] = "done"
           /\ ~wrote[p]
           /\ store = Pre(p)
           /\ req[p].op = "findById" => result[p] = NotFound
           /\ req[p].op = "delete" => result[p] = Deleted(FALSE)
           /\ req[p].op = "update" => result[p].tag \in TypedFailures

C21_Witness ==
    \E p \in Procs :
        /\ pc[p] = "done" /\ IsUpdate(p)
        /\ req[p].id.form = "bad" /\ IsDefined(req[p].given)
        /\ result[p].tag = "AutoNotExists"
        /\ store # <<>>

\* the criteria the read service knows: modell, the two flags and the
\* properties that are compared exactly
KnownCriteria ==
    {"modell", "javascript", "typescript", "verbrauch", "typ", "marke",
     "preis", "rabatt", "lieferbar", "datum", "modellnr", "homepage"}

\* C22: a find whose filter has a criterion that the read service does
\* not know never waits for a storage call and returns the empty
\* sequence, whatever its other criteria are.
C22_UnknownCriterionEmpty ==
    \A p \in Procs :
        ( /\ req[p].op = "find" /\ IsDefined(req[p].filter)
          /\ \E k \in DOMAIN Get(req[p].filter) : k \notin KnownCriteria )
        => /\ pc[p] = "done"
           /\ result[p] = FoundAll(<<>>)

\* ... with a criterion besides that some stored document meets
C22_Witness ==
    \E p \in Procs :
        /\ pc[p] = "done" /\ req[p].op = "find"
        /\ IsDefined(req[p].filter)
        /\ "foo" \in DOMAIN Get(req[p].filter)
        /\ "modell" \in DOMAIN Get(req[p].filter)
        /\ \E o \in DOMAIN store :
              RegExpTest(Get(req[p].filter).modell, store[o].modell)
        /\ result[p] = FoundAll(<<>>)

\* an update over REST that has its outcome
RestUpdateDone(p) ==
    pc[p] = "done" /\ IsUpdate(p) /\ req[p].via = "rest"

\* C23: the REST boundary answers a successful update with 204 and the
\* stored (new) version in double quotes as ETag, a missing If-Match with
\* 428, NotExists, VersionInvalid and VersionOutdated with 412, Invalid
\* and KeyExists with 400, and no typed failure with a 2xx status.
C23_RestUpdateStatus ==
    \A p \in Procs :
        RestUpdateDone(p) =>
            LET r == result[p]
                res == updateResponse(r)
            IN  /\ req[p].given = Undefined => res.status = 428
                /\ r.tag = "Updated" =>
                      /\ res.status = 204
                      /\ ObjectID(req[p].id) \in DOMAIN store
                      /\ res.etag
                           = Some(Quoted(store[ObjectID(req[p].id)].__v))
                /\ r.tag \in {"AutoNotExists", "VersionInvalid",
                              "VersionOutdated"} => res.status = 412
                /\ r.tag \in {"AutoInvalid", "ModellExists"} =>
                      res.status = 400
                /\ r.tag \in TypedFailures => res.status \notin 200..299

\* ... a stale token that is answered with 412
C23_Witness ==
    \E p \in Procs :
        /\ RestUpdateDone(p)
        /\ result[p].tag = "VersionOutdated"
        /\ updateResponse(result[p]) = Response(412, Undefined)

\* a conditional read that has its outcome
GetDone(p) == pc[p] = "done" /\ req[p].op = "GET"

\* what the conditional read of request p must answer: 304 exactly when
\* If-None-Match is the stored version in double quotes, else 200 with
\* the resource and that version as ETag; 404 when the id names nothing
GetAnswersAsDocumented(p) ==
    LET res == findByIdResponse(result[p], req[p].given)
        oid == ObjectID(req[p].id)
    IN  IF req[p].id.form # "bad" /\ oid \in DOMAIN store
        THEN IF req[p].given = Some(Quoted(store[oid].__v))
             THEN res.status = 304
             ELSE /\ res.status = 200
                  /\ res.body = Some(store[oid])
                  /\ res.etag = Some(Quoted(store[oid].__v))
        ELSE res.status = 404

RolesOf(p) ==
    IF user[p] = Undefined THEN {}
    ELSE UNION {u.roles : u \in {x \in users :
                                   x.userId = Get(user[p]).userId}}

\* C25: a request is in create or update only if its user holds ADMIN or
\* MITARBEITER and in delete only if its user holds ADMIN; a request
\* without user or whose user holds none of the required roles is
\* refused and leaves the collection as it was.
C25_RolesGuardWrites ==
    \A p \in Procs :
        /\ req[p].op \in {"create", "update"} =>
              RolesOf(p) \cap {"ADMIN", "MITARBEITER"} # {}
        /\ req[p].op = "delete" => "ADMIN" \in RolesOf(p)
        /\ req[p].op = "refused" =>
              /\ pc[p] = "done"
              /\ result[p] = Forbidden
              /\ ~wrote[p]
              /\ before[p] = Some(store)

\* ... a delete by a user who holds MITARBEITER only, refused while
\* there is a document to delete
C25_Witness ==
    \E p \in Procs :
        /\ req[p].op = "refused" /\ req[p].handler = "delete"
        /\ RolesOf(p) = {"MITARBEITER"}
        /\ store # <<>>

\* the ETag that the answer to request q carries for the resource oid,
\* if q is a GET or an update over REST of oid that has been answered
HandedOut(q, oid) ==
    IF pc[q] # "done" \/ req[q].op \notin {"GET", "update"}
    THEN Undefined
    ELSE IF req[q].id.form = "bad" \/ ObjectID(req[q].id) # oid
    THEN Undefined
    ELSE IF req[q].op = "GET"
    THEN findByIdResponse(result[q], req[q].given).etag
    ELSE IF req[q].via = "rest" THEN updateResponse(result[q]).etag
    ELSE Undefined

\* the version that the answer to request q reports
ReportedVersion(q) ==
    IF req[q].op = "GET" THEN result[q].auto.__v ELSE result[q].version

\* C26: an update over REST whose If-Match is the ETag of an earlier
\* answer (to a GET or to a successful update) for the same resource,
\* with no write to the resource since that answer, does not end with
\* VersionInvalid or VersionOutdated.
C26_ETagRoundTrip ==
    \A p, q \in Procs :
        ( /\ p # q
          /\ pc[p] = "done" /\ IsUpdate(p) /\ req[p].via = "rest"
          /\ IsDefined(before[p]) /\ req[p].id.form # "bad"
          /\ ObjectID(req[p].id) \in DOMAIN Pre(p)
          /\ IsDefined(HandedOut(q, ObjectID(req[p].id)))
          /\ req[p].given = HandedOut(q, ObjectID(req[p].id))
          /\ StoredVersion(p) = ReportedVersion(q) )
        => result[p].tag \notin {"VersionInvalid", "VersionOutdated"}

\* ... the ETag "1" of a successful update, accepted by the next update
C26_Witness ==
    \E p, q \in Procs :
        /\ p # q
        /\ pc[p] = "done" /\ IsUpdate(p) /\ req[p].via = "rest"
        /\ IsDefined(before[p])
        /\ ObjectID(req[p].id) \in DOMAIN Pre(p)
        /\ IsUpdate(q) /\ result[q].tag = "Updated"
        /\ result[q].version = 1
        /\ req[p].given = HandedOut(q, ObjectID(req[p].id))
        /\ StoredVersion(p) = 1
        /\ result[p].tag = "Updated"

\* C27: the write of an update that finds its resource gone (a delete
\* completed after the version check) ends the update with AutoNotExists
\* and leaves the resource absent; and no step makes a resource that was
\* created and deleted live again under its id.
C27_UpdateNeverResurrects ==
    [][ /\ \A p \in Procs :
             ( /\ pc[p] = "findByIdAndUpdate" /\ pc'[p] = "done"
               /\ ObjectID(req[p].id) \notin DOMAIN store )
             => /\ result'[p] = AutoNotExists(req[p].id)
                /\ ObjectID(req[p].id) \notin DOMAIN store'
        /\ \A oid \in 1..MaxOid :
             (oid < nextOid /\ oid \notin DOMAIN store)
             => oid \notin DOMAIN store' ]_vars

\* ... an update that read the version of its resource and then found
\* the resource deleted
C27_Witness ==
    \E p \in Procs :
        /\ pc[p] = "done" /\ IsUpdate(p)
        /\ IsDefined(versionDb[p])
        /\ result[p].tag = "AutoNotExists"
        /\ ObjectID(req[p].id) < nextOid
        /\ ObjectID(req[p].id) \notin DOMAIN store

\* C28: the write of a successful update returns the number of writes
\* applied to its resource, itself included (so 1, 2, 3, ... in the order
\* of the writes), which is the version then stored and is greater than
\* the version any other update of the resource has returned.
C28_ReturnedVersionsCount ==
    [][ \A p \in Procs :
          ( /\ pc[p] = "findByIdAndUpdate" /\ pc'[p] = "done"
            /\ result'[p].tag = "Updated" )
          => LET oid == ObjectID(req[p].id)
             IN  /\ oid \in DOMAIN store /\ oid \in DOMAIN store'
                 /\ result'[p].version = hist[oid].updates + 1
                 /\ result'[p].version = store'[oid].__v
                 /\ \A q \in Procs \ {p} :
                       ( /\ pc[q] = "done" /\ IsUpdate(q)
                         /\ req[q].id.form # "bad"
                         /\ ObjectID(req[q].id) = oid
                         /\ result[q].tag = "Updated" )
                       => result[q].version < result'[p].version ]_vars

\* ... two updates that both passed the version check with the token "0"
\* and have returned 1 and 2
C28_Witness ==
    \E p, q \in Procs :
        /\ pc[p] = "done" /\ pc[q] = "done"
        /\ IsUpdate(p) /\ IsUpdate(q)
        /\ req[p].id = req[q].id
        /\ versionDb[p] = Some(0) /\ versionDb[q] = Some(0)
        /\ result[p].tag = "Updated" /\ result[p].version = 1
        /\ result[q].tag = "Updated" /\ result[q].version = 2

\* C29: a step of an update or of a delete leaves every document other
\* than the one its id names as it was: there before and after, with the
\* same fields and version, or absent before and after.
C29_OthersUntouched ==
    [][ \A p \in Procs :
          (pc'[p] # pc[p] /\ req'[p].op \in {"update", "delete"})
          => \A oid \in (DOMAIN store \cup DOMAIN store')
                         \ {req'[p].id.oid} :
                /\ oid \in DOMAIN store /\ oid \in DOMAIN store'
                /\ store'[oid] = store[oid] ]_vars

\* ... a delete and an update that did their write while another
\* document was there
C29_Witness ==
    \E p \in Procs :
        /\ pc[p] = "done" /\ req[p].op \in {"update", "delete"}
        /\ wrote[p] /\ IsDefined(before[p])
        /\ \E oid \in DOMAIN Pre(p) \ {req[p].id.oid} :
              /\ oid \in DOMAIN store
              /\ store[oid] = Pre(p)[oid]

\* request q is a delete that has returned true, and request p, which came
\* in after that, is a create of a valid candidate with the modell and
\* the modellnr of the deleted document, which no other document held
\* when p came in
RecreateOf(p, q) ==
    /\ p # q
    /\ pc[q] = "done" /\ req[q].op = "delete"
    /\ result[q] = Deleted(TRUE) /\ IsDefined(deleted[q])
    /\ CreateDone(p)
    /\ validate(req[p].auto) = <<>>
    /\ req[p].auto.modell = Get(deleted[q]).modell
    /\ req[p].auto.modellnr = Get(deleted[q]).modellnr
    /\ \A o \in DOMAIN Pre(p) \ {req[q].id.oid} :
          /\ Pre(p)[o].modell # req[p].auto.modell
          /\ Pre(p)[o].modellnr # req[p].auto.modellnr

====
